---- MODULE Spec2Model ----
(***************************************************************************)
(* SQLTalkAI (src/app.py): a Streamlit chat page that hands every user     *)
(* prompt to a LangChain SQL agent and keeps the conversation in           *)
(* st.session_state.chat_history.                                          *)
(*                                                                         *)
(* The page builds the agent with                                          *)
(*     create_sql_agent(llm, toolkit, verbose=True,                        *)
(*                      agent_type=ZERO_SHOT_REACT_DESCRIPTION)            *)
(* and passes nothing else, so the executor runs with the library's        *)
(* defaults: max_iterations = 15, max_execution_time = None,               *)
(* early_stopping_method = "force", handle_parsing_errors = False, and the *)
(* four tools of SQLDatabaseToolkit (sql_db_query, sql_db_schema,          *)
(* sql_db_list_tables, sql_db_query_checker).  The model is the state      *)
(* machine of one page: the chat handler of lines 197-209, the executor    *)
(* loop it runs through agent.run, and the Clear Conversation button.      *)
(*                                                                         *)
(* The scratchpad (the executor's intermediate_steps) is kept as its       *)
(* length and its last step: no operation of the program reads or changes  *)
(* an earlier step.                                                        *)
(***************************************************************************)
EXTENDS Integers, Sequences, FiniteSets, TLC

\* Longest chat_history the model lets a conversation grow to.
MaxHistory == 4

\* The counters of a run are kept up to IterGuard, above max_iterations: the
\* loop as configured never gets there.
IterGuard == 17

-----------------------------------------------------------------------------
(* Configuration the page gives the agent                                  *)

\* create_sql_agent(...) is called without max_iterations: the default.
max_iterations == 15

\* create_sql_agent(...) is called without agent_executor_kwargs, so the
\* executor keeps handle_parsing_errors = False.
handle_parsing_errors_Retry == TRUE
handle_parsing_errors == FALSE

\* The three backends of the sidebar radio.
DB_CHOICES == {"sqlite", "postgres", "mysql"}

\* build_sqlite_db opens student.db with mode=ro; the PostgreSQL and MySQL
\* engines are created from a plain DSN with the user's own rights.
read_only_connection(b) == b = "sqlite"

\* The tools SQLDatabaseToolkit(db, llm).get_tools() gives the agent.
ToolNames == {"sql_db_query", "sql_db_schema", "sql_db_list_tables",
              "sql_db_query_checker"}

-----------------------------------------------------------------------------
(* SQL text the language model can put in a sql_db_query action.  A        *)
(* statement is its leading trivia and its first keyword as written.       *)

Statements ==
    { [lead |-> "",           keyword |-> "SELECT"],
      [lead |-> "/* c */ ",   keyword |-> "drop"] }

Upper(k) ==
    CASE k = "drop"   -> "DROP"
      [] k = "insert" -> "INSERT"
      [] OTHER        -> k

WriteKeywords == {"INSERT", "UPDATE", "DELETE", "DROP", "ALTER", "CREATE"}

\* What the database engine itself does with a statement: it changes data.
IsWrite(s) == Upper(s.keyword) \in WriteKeywords

-----------------------------------------------------------------------------
(* Actions the output parser can return                                    *)

NoAction == [tool |-> "", input |-> [lead |-> "", keyword |-> ""]]
NoInput  == [lead |-> "", keyword |-> ""]

AgentActions ==
    { [tool |-> "sql_db_query", input |-> s] : s \in Statements }
    \cup { [tool |-> t, input |-> NoInput] :
             t \in {"sql_db_schema", "sql_db_list_tables", "no_such_tool"} }
    \cup { [tool |-> "sql_db_query_checker", input |-> s] :
             s \in {[lead |-> "", keyword |-> "SELECT"]} }

\* A scratchpad step: the action, its observation, whether the tool was
\* executed for it, and whether the action equals the one of the step before.
NoStep == [action |-> NoAction, observation |-> "", ran |-> FALSE, repeat |-> FALSE]

StopMessage == "Agent stopped due to iteration limit or time limit."

NoOutcome == [kind |-> "None", value |-> ""]

Greeting == [role |-> "assistant", content |-> "Hi! Ask me anything about your database."]
Cleared_Empty == << >>
Cleared  == << [role |-> "assistant", content |-> "History cleared. How can I help you now?"] >>

VARIABLES
    backend,        \* db_choice, the backend build_sql_database connected to
    chat_history,   \* st.session_state.chat_history
    pc,             \* "idle" | "Reasoning" | "ToolDispatch"
    prompt,         \* the prompt of the running (or last) turn
    iterations,     \* the executor's iteration counter
    nsteps,         \* len(intermediate_steps)
    last_step,      \* intermediate_steps[-1]
    pending,        \* the parsed action waiting for its tool
    parse_errors,   \* parse failures of this turn
    same_action,    \* every step of this turn carried the same action
    outcome,        \* how agent.run ended: Return(reply) or Raise(exception)
    unhandled,      \* an exception left the chat handler
    backendLog,     \* statements handed to the database engine
    db_modified     \* some statement changed the database

vars == << backend, chat_history, pc, prompt, iterations, nsteps, last_step,
           pending, parse_errors, same_action, outcome, unhandled, backendLog, db_modified >>

turn == << iterations, nsteps, last_step, pending, parse_errors, same_action >>
db   == << backendLog, db_modified >>

Init ==
    /\ backend \in DB_CHOICES
    /\ chat_history = << Greeting >>
    /\ pc = "idle"
    /\ prompt = ""
    /\ iterations = 0
    /\ nsteps = 0
    /\ last_step = NoStep
    /\ pending = NoAction
    /\ parse_errors = 0
    /\ same_action = TRUE
    /\ outcome = NoOutcome
    /\ unhandled = FALSE
    /\ backendLog = {}
    /\ db_modified = FALSE


-----------------------------------------------------------------------------
(* The chat handler's two endings (lines 203-209)                          *)

\* "except Exception as exc" catches every exception class agent.run raises.
except_ValueErrorOnly(exc) == exc = "ValueError"
except_Exception(exc) == exc \in {"ValueError", "APIError", "SQLAlchemyError"}

\* agent.run returned: the reply is appended as an assistant message.
Return(reply) ==
    /\ chat_history' = Append(chat_history, [role |-> "assistant", content |-> reply])
    /\ outcome' = [kind |-> "Return", value |-> reply]
    /\ pc' = "idle"
    /\ UNCHANGED unhandled

\* agent.run raised: st.error shows the exception, nothing is appended.
Raise(exc) ==
    /\ outcome' = [kind |-> IF except_Exception(exc) THEN "Raise" ELSE "Unhandled",
                   value |-> exc]
    /\ unhandled' = (unhandled \/ ~except_Exception(exc))
    /\ pc' = "idle"
    /\ UNCHANGED chat_history

-----------------------------------------------------------------------------
(* The executor loop behind agent.run                                      *)

\* max_execution_time is None, so only the iteration count stops the loop.
_should_continue_OffByOne(it) == it <= max_iterations
_should_continue_NoLimit(it) == TRUE
_should_continue(it) == it < max_iterations

\* intermediate_steps.extend(next_step_output): one step more.
extend_Overwrite(n) == IF n = 0 THEN 1 ELSE n
extend(n) == n + 1

\* The tool is looked up by the action's name alone (name_to_tool_map); the
\* previous step is not consulted.
lookup_SkipRepeat(prev, a) == a.tool \in ToolNames /\ prev.action # a
lookup(prev, a) == a.tool \in ToolNames

Cap(n) == IF n > IterGuard THEN IterGuard ELSE n

\* One (action, observation) pair joins the scratchpad; back to Reasoning.
Step(a, obs, ran) ==
    /\ nsteps' = Cap(extend(nsteps))
    /\ last_step' = [action |-> a, observation |-> obs, ran |-> ran,
                     repeat |-> (nsteps >= 1 /\ last_step.action = a)]
    /\ same_action' = (same_action /\ (nsteps >= 1 => last_step.action = a))
    /\ iterations' = Cap(iterations + 1)
    /\ pending' = NoAction
    /\ pc' = "Reasoning"
    /\ UNCHANGED << chat_history, outcome, unhandled, parse_errors >>

\* What the engine does with a statement on backend b: the raw result of
\* db.run, before any wrapping.
db_run(b, s) ==
    { [text |-> "Error: connection", error |-> TRUE, reached |-> FALSE, modified |-> FALSE] }
    \cup
    ( IF IsWrite(s)
      THEN IF read_only_connection(b)
           THEN { [text |-> "Error: readonly", error |-> TRUE, reached |-> TRUE, modified |-> FALSE] }
           ELSE { [text |-> "", error |-> FALSE, reached |-> TRUE, modified |-> TRUE],
                  [text |-> "Error: execution", error |-> TRUE, reached |-> TRUE, modified |-> FALSE] }
      ELSE { [text |-> "Rows", error |-> FALSE, reached |-> TRUE, modified |-> FALSE],
             [text |-> "Error: execution", error |-> TRUE, reached |-> TRUE, modified |-> FALSE] } )

\* sql_db_query and sql_db_schema call the database's *_no_throw methods,
\* which return the error text instead of raising.
raises_Throwing(r) == r.error
raises(r) == FALSE

\* user prompt submitted (lines 197-199): the user entry is appended and
\* agent.run starts with an empty scratchpad.
Submit ==
    /\ pc = "idle"
    /\ Len(chat_history) + 2 <= MaxHistory
    /\ prompt' = "prompt"
    /\ chat_history' = Append(chat_history, [role |-> "user", content |-> "prompt"])
    /\ pc' = "Reasoning"
    /\ iterations' = 0
    /\ nsteps' = 0
    /\ last_step' = NoStep
    /\ pending' = NoAction
    /\ parse_errors' = 0
    /\ same_action' = TRUE
    /\ outcome' = NoOutcome
    /\ UNCHANGED << backend, unhandled, db >>

\* The completion parses to a tool action.
PlanAction ==
    /\ pc = "Reasoning"
    /\ _should_continue(iterations)
    /\ \E a \in AgentActions : pending' = a
    /\ pc' = "ToolDispatch"
    /\ UNCHANGED << backend, chat_history, prompt, iterations, nsteps, last_step,
                    parse_errors, same_action, outcome, unhandled, db >>

\* The completion parses to "Final Answer": agent.run returns it.
PlanFinish ==
    /\ pc = "Reasoning"
    /\ _should_continue(iterations)
    /\ Return("answer")
    /\ UNCHANGED << backend, prompt, turn, db >>

\* The completion does not parse (OutputParserException).  With
\* handle_parsing_errors = False the executor raises ValueError at once.
PlanParseError ==
    /\ pc = "Reasoning"
    /\ _should_continue(iterations)
    /\ IF handle_parsing_errors
       THEN /\ nsteps' = Cap(extend(nsteps))
            /\ last_step' = [action |-> [tool |-> "_Exception", input |-> NoInput],
                             observation |-> "Invalid or incomplete response",
                             ran |-> FALSE, repeat |-> FALSE]
            /\ iterations' = Cap(iterations + 1)
            /\ parse_errors' = 1
            /\ UNCHANGED << pc, pending, same_action, chat_history, outcome, unhandled >>
       ELSE /\ parse_errors' = parse_errors + 1
            /\ Raise("ValueError")
            /\ UNCHANGED << iterations, nsteps, last_step, pending, same_action >>
    /\ UNCHANGED << backend, prompt, db >>

\* The completion call itself fails (network error, rate limit).
PlanModelError ==
    /\ pc = "Reasoning"
    /\ _should_continue(iterations)
    /\ Raise("APIError")
    /\ UNCHANGED << backend, prompt, turn, db >>

\* The loop ends on the iteration limit: early_stopping_method = "force"
\* makes agent.run return the fixed stop message.
ForceStop ==
    /\ pc = "Reasoning"
    /\ ~_should_continue(iterations)
    /\ Return(StopMessage)
    /\ UNCHANGED << backend, prompt, turn, db >>

\* sql_db_query: the statement goes to the engine as it is.
RunQuery ==
    /\ pc = "ToolDispatch"
    /\ pending.tool = "sql_db_query"
    /\ lookup(last_step, pending)
    /\ \E r \in db_run(backend, pending.input) :
         /\ backendLog' = IF r.reached THEN backendLog \cup {pending.input} ELSE backendLog
         /\ db_modified' = (db_modified \/ r.modified)
         /\ IF raises(r)
            THEN /\ Raise("SQLAlchemyError")
                 /\ UNCHANGED turn
            ELSE Step(pending, r.text, TRUE)
    /\ UNCHANGED << backend, prompt >>

\* sql_db_schema: table definitions, or the error text.
RunSchema ==
    /\ pc = "ToolDispatch"
    /\ pending.tool = "sql_db_schema"
    /\ lookup(last_step, pending)
    /\ \E r \in { [text |-> "schema", error |-> FALSE],
                  [text |-> "Error: connection", error |-> TRUE] } :
         IF raises(r)
         THEN /\ Raise("SQLAlchemyError")
              /\ UNCHANGED turn
         ELSE Step(pending, r.text, TRUE)
    /\ UNCHANGED << backend, prompt, db >>

\* sql_db_list_tables: the table names collected when the database was built.
RunListTables ==
    /\ pc = "ToolDispatch"
    /\ pending.tool = "sql_db_list_tables"
    /\ lookup(last_step, pending)
    /\ Step(pending, "tables", TRUE)
    /\ UNCHANGED << backend, prompt, db >>

\* sql_db_query_checker asks the language model to review the query; a
\* failure of that call is an exception of the run.
RunChecker ==
    /\ pc = "ToolDispatch"
    /\ pending.tool = "sql_db_query_checker"
    /\ lookup(last_step, pending)
    /\ \/ Step(pending, "checked", TRUE)
       \/ /\ Raise("APIError")
          /\ UNCHANGED turn
    /\ UNCHANGED << backend, prompt, db >>

\* A name that is no tool: InvalidTool answers, nothing is executed.
RunInvalidTool ==
    /\ pc = "ToolDispatch"
    /\ ~lookup(last_step, pending)
    /\ Step(pending, "not a valid tool", FALSE)
    /\ UNCHANGED << backend, prompt, db >>

\* Clear Conversation (lines 211-214): the history is replaced and the page
\* reruns, with no prompt and so no agent run.
ClearConversation ==
    /\ pc = "idle"
    /\ chat_history' = Cleared
    /\ outcome' = NoOutcome
    /\ prompt' = ""
    /\ iterations' = 0
    /\ nsteps' = 0
    /\ last_step' = NoStep
    /\ pending' = NoAction
    /\ parse_errors' = 0
    /\ same_action' = TRUE
    /\ UNCHANGED << backend, pc, unhandled, db >>

AgentStep ==
    \/ PlanAction \/ PlanFinish \/ PlanParseError \/ PlanModelError \/ ForceStop
    \/ RunQuery \/ RunSchema \/ RunListTables \/ RunChecker \/ RunInvalidTool

Next ==
    \/ Submit
    \/ PlanAction
    \/ PlanFinish
    \/ PlanParseError
    \/ PlanModelError
    \/ ForceStop
    \/ RunQuery
    \/ RunSchema
    \/ RunListTables
    \/ RunChecker
    \/ RunInvalidTool
    \/ ClearConversation

Spec == Init /\ [][Next]_vars

\* Every call of the loop (a completion, a tool) returns or raises.
FairSpec == Init /\ [][Next]_vars /\ WF_vars(AgentStep)

-----------------------------------------------------------------------------
(* Properties                                                              *)

\* How the page shows the end of a turn: a reply other than the stop
\* message is a completed turn, the stop message an aborted one
\* (iteration limit), a caught exception a failed one.
TurnStatus ==
    CASE outcome.kind = "Return" /\ outcome.value = StopMessage -> "Aborted"
      [] outcome.kind = "Return" /\ outcome.value # StopMessage -> "Completed"
      [] outcome.kind = "Raise"                                 -> "Failed"
      [] outcome.kind = "Unhandled"                             -> "Crashed"
      [] OTHER                                                  -> "None"

ErrorObservations == {"Error: connection", "Error: readonly", "Error: execution"}

Last(h) == h[Len(h)]

\* C1: no statement classified as a write (first keyword, case-insensitive,
\* after leading whitespace and comments) is ever handed to the database
\* engine, and none changes the database, whatever the backend.
C1_WriteNeverReachesBackend ==
    /\ \A s \in backendLog : ~IsWrite(s)
    /\ ~db_modified

\* C2: no exception ever leaves the chat handler, and every turn that has
\* ended has ended Completed, Aborted or Failed.
C2_TerminalTurn ==
    /\ ~unhandled
    /\ (pc # "idle") = (prompt # "" /\ outcome = NoOutcome)
    /\ (pc = "idle" /\ prompt # "" => TurnStatus \in {"Completed", "Aborted", "Failed"})

C2_Witness ==
    /\ pc = "idle"
    /\ outcome = [kind |-> "Raise", value |-> "ValueError"]
    /\ TurnStatus = "Failed"

\* C3: a run is given at most max_iterations (15) tool actions; when the
\* model has used them all without finishing, the turn ends with the stop
\* message, and that ending has no other cause.
C3_StepLimit ==
    /\ nsteps <= max_iterations
    /\ iterations <= max_iterations
    /\ (pc = "ToolDispatch" => iterations < max_iterations)
    /\ (outcome.value = StopMessage =>
            /\ TurnStatus = "Aborted"
            /\ iterations = max_iterations
            /\ nsteps = max_iterations)
    /\ (pc = "idle" /\ iterations = max_iterations => outcome.value = StopMessage)

C3_Witness ==
    /\ pc = "idle"
    /\ outcome.value = StopMessage
    /\ nsteps = max_iterations

C7_ScratchpadAppendOnly ==
    /\ [](nsteps = iterations)
    /\ [][ /\ (pc # "idle" => nsteps' >= nsteps)
           /\ (pc = "ToolDispatch" /\ pc' = "Reasoning" => nsteps' = nsteps + 1)
           /\ (~(pc = "ToolDispatch" /\ pc' = "Reasoning") /\ pc # "idle"
                  => nsteps' = nsteps) ]_vars

C7_Witness ==
    /\ pc = "Reasoning"
    /\ nsteps = 3
    /\ iterations = 3

C10_ChatHistoryShape ==
    /\ Len(chat_history) >= 1
    /\ chat_history[1].role = "assistant"
    /\ \A i \in 2..Len(chat_history) :
          chat_history[i].role = "assistant" => chat_history[i - 1].role = "user"
    /\ (pc = "idle" /\ outcome.kind = "Return" =>
            /\ Last(chat_history) = [role |-> "assistant", content |-> outcome.value]
            /\ chat_history[Len(chat_history) - 1] = [role |-> "user", content |-> prompt])
    /\ (outcome.kind = "Raise" =>
            Last(chat_history) = [role |-> "user", content |-> prompt])
    /\ (pc # "idle" => Last(chat_history) = [role |-> "user", content |-> prompt])

C10_Witness ==
    /\ Len(chat_history) = 4
    /\ chat_history[1] = Cleared[1]
    /\ chat_history[2].role = "user"
    /\ chat_history[3].role = "user"
    /\ chat_history[4].role = "assistant"

=============================================================================
